---- MODULE Spec2Model ----
(***************************************************************************)
(* Model of hiberman's SuspendConductor (src/hiberman/src/suspend.rs).     *)
(*                                                                         *)
(* One call of SuspendConductor::hibernate() is a sequential walk through  *)
(* its statements; pc names the statement about to run.  Every fallible    *)
(* call of a collaborator is a nondeterministic choice between its         *)
(* outcomes.  The state is split into                                      *)
(*   - the conductor's fields and the locals of hibernate() (process       *)
(*     memory: captured by the snapshot, restored on resume),              *)
(*   - kernel state (frozen userspace, swappiness sysctl, memory lock),    *)
(*   - disk state (cookie, backing files), which survives the power-off,   *)
(*   - history variables (trace, warnings, reported_size, cookie_at_entry).*)
(***************************************************************************)
EXTENDS Integers, Sequences, FiniteSets, TLC

\* ---------------------------------------------------------------- bounds
\* Number of hibernate() calls made on the one conductor.
MaxAttempts == 2
\* Largest f_blocks the stateful filesystem reports (f_blocks is MaxBlocks-1
\* or MaxBlocks, so that 1 free block is 10% of the one and 9% of the other).
MaxBlocks == 11
\* Largest f_bfree the stateful filesystem reports.
MaxFree == 1
\* Largest image size (in pages) the snapshot device reports.
MaxImagePages == 2
\* get_page_size(), in bytes.
PageSize == 4

\* ------------------------------------------------------ program constants
SUSPEND_SWAPPINESS == 100
LOW_DISK_FREE_THRESHOLD_PERCENT == 10
\* hiberutil::BUFFER_PAGES.
BUFFER_PAGES == 32
\* Image sizes the snapshot device reports: whole pages.  Line 259 takes the
\* loff_t as it comes, so an empty image is among them.
ImageSizes == {p * PageSize : p \in 0..MaxImagePages}
\* Header sizes the splitter may parse from the first page: nothing, less
\* than a page, a page, more than a page and no page multiple, more than the
\* image.
ParsedMetaSizes ==
    {0, PageSize - 1, PageSize, PageSize + 1, MaxImagePages * PageSize + 1}
\* The value vm.swappiness has before the conductor touches it: neither
\* SUSPEND_SWAPPINESS nor the 0 of a guard that saved nothing.
InitSwappiness == {60}
\* Answers of the update engine probe: idle, any other state, or a failed probe.
UpdateEngineStates == {"idle", "updating", "error"}

AllFiles == {"header", "hiber", "meta", "resume_log", "resume_metrics",
             "suspend_metrics", "suspend_log"}
DataFiles == {"hiber", "meta"}
LogAndMetricsFiles == {"resume_log", "resume_metrics", "suspend_metrics", "suspend_log"}

NoGuard == [held |-> FALSE, saved |-> 0]
\* u64 values are kept at their width: four limbs of 16 bits, the least
\* significant first.
LimbBase == 2^16
\* A small number as a u64.
U64(n) == <<n % LimbBase, (n \div LimbBase) % LimbBase, 0, 0>>
\* u64::MAX.
U64_MAX == <<LimbBase - 1, LimbBase - 1, LimbBase - 1, LimbBase - 1>>
\* 2^63, half of the u64 range.
U64_HALF == <<0, 0, 0, LimbBase \div 2>>
\* x * k over the integers, for a u64 x and a small k: five limbs, the fifth
\* being what does not fit in a u64.
MulLimbs(x, k) ==
    LET p1 == x[1] * k
        p2 == x[2] * k + (p1 \div LimbBase)
        p3 == x[3] * k + (p2 \div LimbBase)
        p4 == x[4] * k + (p3 \div LimbBase)
    IN  <<p1 % LimbBase, p2 % LimbBase, p3 % LimbBase, p4 % LimbBase,
          p4 \div LimbBase>>
\* Whether x * k does not fit in a u64.
MulOverflows(x, k) == MulLimbs(x, k)[5] # 0
\* x * k modulo 2^64, as five limbs.
WrappingMul(x, k) == [MulLimbs(x, k) EXCEPT ![5] = 0]
\* a < b, for numbers of the same number of limbs.
LessLimbs(a, b) ==
    \E i \in 1..Len(a) :
        /\ a[i] < b[i]
        /\ \A j \in (i + 1)..Len(a) : a[j] = b[j]
\* What statvfs can leave in the buffer when it succeeds: a filesystem of
\* MaxBlocks-1 or MaxBlocks blocks with up to MaxFree of them free, the
\* zeroed buffer of line 354 itself, and a filesystem of u64::MAX blocks
\* with half of them free.
FsStatsValues ==
    {[f_bfree |-> U64(f), f_blocks |-> U64(t)] :
        f \in 0..MaxFree, t \in (MaxBlocks - 1)..MaxBlocks}
    \cup {[f_bfree |-> U64(0), f_blocks |-> U64(0)],
          [f_bfree |-> U64_HALF, f_blocks |-> U64_MAX]}
NoStats == [f_bfree |-> U64(0), f_blocks |-> U64(1)]
NoSnap == [taken |-> FALSE]
NoPrev == [ok |-> FALSE]
\* The header file and the hiberfile before any image was streamed to them.
NoImage == [state |-> "none", gen |-> 0]
\* The metadata file before any metadata was written to it.
NoMetaOnDisk == [state |-> "none", valid |-> FALSE, gen |-> 0]
\* The metadata file after a write to it failed.
TornMeta == [state |-> "torn", valid |-> FALSE, gen |-> 0]
\* HibernateMetadata::new(): zero tag, no flags, no image.
NewMetadata == [data_tag |-> 0, image_size |-> 0, valid |-> FALSE]

VARIABLES
    pc,               \* statement of hibernate() about to run
    ret,              \* value hibernate() returned ("none" while running)
    failed,           \* first fallible call of this attempt that answered with an error
    result,           \* the local `result` of hibernate() (line 165)
    attempts,         \* hibernate() calls started so far
    opt_arg,          \* the `options` argument (dry_run)
    options,          \* self.options.dry_run
    metadata,         \* self.metadata
    metrics_file,     \* self.metrics.file is Some
    metrics_flushed,  \* the metrics sink holds no unflushed sample
    is_lvm,           \* local is_lvm
    files_exist,      \* local files_exist
    should_zero,      \* local should_zero
    fs_stats,         \* local fs_stats
    prealloc,         \* backing files preallocated by this call
    zeroed,           \* backing files this call asked to zero-fill
    log_file_logging, \* log_file's "allow logging" flag
    locked_memory,    \* the _locked_memory guard is held
    swap_guard,       \* the Swappiness guard: held, and the value it restores
    frozen,           \* userspace is frozen (FrozenUserspaceTicket alive)
    swappiness,       \* the kernel's vm.swappiness
    log_sink,         \* active sink of the log router
    cookie,           \* hibernate cookie on the stateful block device
    files,            \* backing files that exist on disk
    lvm,              \* whether the machine is an LVM system
    update_engine,    \* what the update engine answers in this attempt
    swappiness_at_entry, \* vm.swappiness when the current attempt began
    snap,             \* process memory captured by ATOMIC_SNAPSHOT
    kernel,           \* "original" or "restored" (after a resume)
    trace,            \* events of the current attempt, in order
    warnings,         \* warnings logged by the current attempt
    reported_size,    \* what get_image_size reported in this attempt (bytes)
    splitter_meta_size, \* splitter.meta_size
    meta_size,        \* the local meta_size of move_image (line 296)
    movers,           \* the ImageMovers move_image has made, in order
    image_on_disk,    \* what the header file and the hiberfile hold
    meta_on_disk,     \* what the metadata file holds
    cookie_at_entry,  \* cookie on disk when the current attempt began
    files_at_entry,   \* backing files on disk when the current attempt began
    prev              \* the previous call, when it returned success

ctl == <<pc, ret>>
guards == <<locked_memory, swap_guard, swappiness>>
self == <<options, metadata, metrics_file, metrics_flushed>>
locals == <<opt_arg, is_lvm, files_exist, should_zero, fs_stats, prealloc, zeroed,
            log_file_logging, result>>
disk == <<image_on_disk, meta_on_disk>>
env == <<lvm, update_engine, swappiness_at_entry, disk>>
world == <<frozen, log_sink, cookie, files, env, snap, kernel>>
calls == <<attempts, files_at_entry, prev>>
image == <<reported_size, splitter_meta_size, meta_size, movers>>
hist == <<trace, warnings, image, cookie_at_entry, calls>>
vars == <<ctl, failed, guards, self, locals, world, hist>>

\* ---------------------------------------------------------------- helpers
Has(ev) == \E i \in 1..Len(trace) : trace[i] = ev
\* ev1 occurs, and strictly before every occurrence of ev2.
Before(ev1, ev2) ==
    \A j \in 1..Len(trace) :
        trace[j] = ev2 => \E i \in 1..(j - 1) : trace[i] = ev1
Count(ev) == Cardinality({i \in 1..Len(trace) : trace[i] = ev})

Init ==
    /\ pc = "idle"
    /\ ret = "none"
    /\ failed = "none"
    /\ result = "none"
    /\ attempts = 0
    /\ opt_arg = FALSE
    /\ options = FALSE
    /\ metadata = NewMetadata
    /\ metrics_file = FALSE
    /\ metrics_flushed = TRUE
    /\ is_lvm = FALSE
    /\ files_exist = FALSE
    /\ should_zero = FALSE
    /\ fs_stats = NoStats
    /\ prealloc = {}
    /\ zeroed = {}
    /\ log_file_logging = TRUE
    /\ locked_memory = FALSE
    /\ swap_guard = NoGuard
    /\ frozen = FALSE
    /\ swappiness \in InitSwappiness
    /\ log_sink = "Syslog"
    /\ cookie = "NoResume"
    /\ files \in {{}, AllFiles}
    /\ lvm \in BOOLEAN
    /\ update_engine = "idle"
    /\ swappiness_at_entry = swappiness
    /\ snap = NoSnap
    /\ kernel = "original"
    /\ trace = <<>>
    /\ warnings = {}
    /\ reported_size = 0
    /\ splitter_meta_size = 0
    /\ meta_size = 0
    /\ movers = <<>>
    /\ image_on_disk = NoImage
    /\ meta_on_disk = NoMetaOnDisk
    /\ cookie_at_entry = "NoResume"
    /\ files_at_entry = files
    /\ prev = NoPrev

\* ------------------------------------------------------- scoped guards
\* Drop of the Swappiness guard: vm.swappiness after the guard went out of
\* scope; a guard that was acquired writes back the value it saved.
Swappiness_drop(guard, current) == IF guard.held THEN guard.saved ELSE current

\* Drop of the FrozenUserspaceTicket: whether userspace is still frozen after
\* the ticket went out of scope (its release thaws userspace).
FrozenUserspaceTicket_drop(was_frozen) == FALSE

\* Mutant of Return: the Swappiness guard is leaked instead of dropped.
Return_keeps_swappiness(e) ==
    /\ pc' = "done"
    /\ ret' = e
    /\ locked_memory' = FALSE
    /\ UNCHANGED <<swappiness, swap_guard>>

\* ------------------------------------------------- leaving hibernate()
\* Return from hibernate() with value e: the locals go out of scope, so the
\* memory lock is dropped and the Swappiness guard writes back the value it
\* saved.
Return(e) ==
    /\ pc' = "done"
    /\ ret' = e
    /\ locked_memory' = FALSE
    /\ swappiness' = Swappiness_drop(swap_guard, swappiness)
    /\ swap_guard' = NoGuard

\* A fallible call answered with error e, which `?` returns from hibernate().
Fail(e) ==
    /\ Return(e)
    /\ failed' = e

\* A fallible call followed by `?`: either go on to `next`, or return `err`.
Try(here, next, err) ==
    /\ pc = here
    /\ \/ /\ pc' = next
          /\ UNCHANGED <<ret, guards, failed>>
       \/ Fail(err)

\* ------------------------------------------------------ hibernate(), setup
\* Line 95: a caller invokes hibernate(options).
Hibernate(dry) ==
    /\ pc \in {"idle", "done"}
    /\ attempts < MaxAttempts
    /\ attempts' = attempts + 1
    /\ files_at_entry' = files
    /\ prev' = IF ret = "Ok"
               THEN [ok |-> TRUE, dry_run |-> options, trace |-> trace]
               ELSE NoPrev
    /\ pc' = "setup_hibernate_lv"
    /\ ret' = "none"
    /\ failed' = "none"
    /\ result' = "none"
    /\ opt_arg' = dry
    /\ is_lvm' = FALSE
    /\ files_exist' = FALSE
    /\ should_zero' = FALSE
    /\ fs_stats' = NoStats
    /\ prealloc' = {}
    /\ zeroed' = {}
    /\ log_file_logging' = TRUE
    /\ snap' = NoSnap
    /\ trace' = <<>>
    /\ warnings' = {}
    /\ reported_size' = 0
    /\ splitter_meta_size' = 0
    /\ meta_size' = 0
    /\ movers' = <<>>
    /\ cookie_at_entry' = cookie
    /\ swappiness_at_entry' = swappiness
    /\ update_engine' \in UpdateEngineStates
    /\ UNCHANGED <<guards, self, frozen, log_sink, cookie, files, lvm, disk, kernel>>

\* Line 98.
setup_hibernate_lv ==
    /\ Try("setup_hibernate_lv", "log_hibernate_attempt", "LvSetup")
    /\ UNCHANGED <<self, locals, world, hist>>

\* Lines 99-101: a failure is only a warning.
log_hibernate_attempt ==
    /\ pc = "log_hibernate_attempt"
    /\ pc' = "create_lv_snapshot_files"
    /\ \/ UNCHANGED warnings
       \/ warnings' = warnings \cup {"Failed to log hibernate attempt"}
    /\ UNCHANGED <<failed, ret, guards, self, locals, world, trace, image,
                   cookie_at_entry, calls>>

\* Line 103.
create_lv_snapshot_files ==
    /\ Try("create_lv_snapshot_files", "is_lvm_system", "LvSnapshotFiles")
    /\ UNCHANGED <<self, locals, world, hist>>

\* Mutant of is_lvm_system: the existence of the hiberfile is not looked at.
is_lvm_system_ignores_files ==
    /\ pc = "is_lvm_system"
    /\ \/ /\ pc' = "preallocate_header_file"
          /\ is_lvm' = lvm
          /\ files_exist' = FALSE
          /\ should_zero' = lvm
          /\ UNCHANGED <<failed, ret, guards>>
       \/ /\ Fail("IsLvm")
          /\ UNCHANGED <<is_lvm, files_exist, should_zero>>
    /\ UNCHANGED <<self, opt_arg, fs_stats, prealloc, zeroed, log_file_logging,
                   result, world, hist>>

\* Lines 104-106: is_lvm, files_exist and should_zero.
is_lvm_system ==
    /\ pc = "is_lvm_system"
    /\ \/ /\ pc' = "preallocate_header_file"
          /\ is_lvm' = lvm
          /\ files_exist' = ("hiber" \in files)
          /\ should_zero' = (lvm /\ ~("hiber" \in files))
          /\ UNCHANGED <<failed, ret, guards>>
       \/ /\ Fail("IsLvm")
          /\ UNCHANGED <<is_lvm, files_exist, should_zero>>
    /\ UNCHANGED <<self, opt_arg, fs_stats, prealloc, zeroed, log_file_logging,
                   result, world, hist>>

\* One preallocate_*(should_zero)? call: the file exists afterwards with its
\* full size, zero-filled when should_zero.
Preallocate(here, f, next) ==
    /\ pc = here
    /\ \/ /\ pc' = next
          /\ files' = files \cup {f}
          /\ prealloc' = prealloc \cup {f}
          /\ zeroed' = IF should_zero THEN zeroed \cup {f} ELSE zeroed
          /\ UNCHANGED <<failed, ret, guards>>
       \/ /\ Fail("Preallocation")
          /\ UNCHANGED <<files, prealloc, zeroed>>
    /\ UNCHANGED <<self, opt_arg, is_lvm, files_exist, should_zero, fs_stats,
                   log_file_logging, result, frozen, log_sink, cookie, env, snap,
                   kernel, hist>>

\* Lines 107-109.
preallocate_header_file ==
    Preallocate("preallocate_header_file", "header", "preallocate_hiberfile")
preallocate_hiberfile ==
    Preallocate("preallocate_hiberfile", "hiber", "preallocate_metadata_file")
preallocate_metadata_file ==
    Preallocate("preallocate_metadata_file", "meta", "preallocate_resume_log")
\* Lines 113-115.
preallocate_resume_log ==
    Preallocate("preallocate_resume_log", "resume_log", "preallocate_resume_metrics")
preallocate_resume_metrics ==
    Preallocate("preallocate_resume_metrics", "resume_metrics",
                "preallocate_suspend_metrics")
preallocate_suspend_metrics ==
    Preallocate("preallocate_suspend_metrics", "suspend_metrics", "open_metrics_file")

\* Lines 116-117.
open_metrics_file ==
    /\ pc = "open_metrics_file"
    /\ \/ /\ pc' = "preallocate_suspend_log"
          /\ metrics_file' = TRUE
          /\ UNCHANGED <<failed, ret, guards>>
       \/ /\ Fail("OpenMetricsFile")
          /\ UNCHANGED metrics_file
    /\ UNCHANGED <<options, metadata, metrics_flushed, locals, world, hist>>

\* Line 118.
preallocate_suspend_log ==
    Preallocate("preallocate_suspend_log", "suspend_log", "store_options")

\* Lines 119-129: the "SetupLVMFiles" sample is buffered in the metrics sink,
\* and the options are stored.
store_options ==
    /\ pc = "store_options"
    /\ pc' = "is_update_engine_idle"
    /\ metrics_flushed' = FALSE
    /\ options' = opt_arg
    /\ UNCHANGED <<failed, ret, guards, metadata, metrics_file, locals, world, hist>>

\* Mutant of is_update_engine_idle: a busy update engine does not stop the attempt.
is_update_engine_idle_ignored ==
    /\ pc = "is_update_engine_idle"
    /\ \/ /\ update_engine \in {"idle", "updating"}
          /\ pc' = "set_logging"
          /\ UNCHANGED <<failed, ret, guards>>
       \/ /\ update_engine = "error"
          /\ Fail("UpdateEngineProbe")
    /\ UNCHANGED <<self, locals, world, hist>>

\* Lines 136-138: the gate.  The probe may also fail by itself.
is_update_engine_idle ==
    /\ pc = "is_update_engine_idle"
    /\ \/ /\ update_engine = "idle"
          /\ pc' = "set_logging"
          /\ UNCHANGED <<failed, ret, guards>>
       \/ /\ update_engine = "updating"
          /\ Fail("UpdateEngineBusy")
       \/ /\ update_engine = "error"
          /\ Fail("UpdateEngineProbe")
    /\ UNCHANGED <<self, locals, world, hist>>

\* Line 141.
set_logging ==
    /\ pc = "set_logging"
    /\ pc' = "get_fs_stats"
    /\ log_file_logging' = FALSE
    /\ UNCHANGED <<failed, ret, guards, self, opt_arg, is_lvm, files_exist, should_zero,
                   fs_stats, prealloc, zeroed, result, world, hist>>

\* Line 142 (and 352-362).
get_fs_stats ==
    /\ pc = "get_fs_stats"
    /\ \/ /\ pc' = "lock_process_memory"
          /\ fs_stats' \in FsStatsValues
          /\ UNCHANGED <<failed, ret, guards>>
       \/ /\ Fail("FsStats")
          /\ UNCHANGED fs_stats
    /\ UNCHANGED <<self, opt_arg, is_lvm, files_exist, should_zero, prealloc, zeroed,
                   log_file_logging, result, world, hist>>

\* Mutant of lock_process_memory: the lock is not taken.
lock_process_memory_omitted ==
    /\ pc = "lock_process_memory"
    /\ pc' = "Swappiness_new"
    /\ UNCHANGED <<failed, ret, guards, self, locals, world, hist>>

\* Line 143.
lock_process_memory ==
    /\ pc = "lock_process_memory"
    /\ \/ /\ pc' = "Swappiness_new"
          /\ locked_memory' = TRUE
          /\ trace' = Append(trace, "lock_memory")
          /\ UNCHANGED <<failed, ret, swap_guard, swappiness>>
       \/ /\ Fail("MemoryLock")
          /\ UNCHANGED trace
    /\ UNCHANGED <<self, locals, world, warnings, image, cookie_at_entry,
                   calls>>

\* Line 144: the guard remembers the current value.
Swappiness_new ==
    /\ pc = "Swappiness_new"
    /\ \/ /\ pc' = "set_swappiness"
          /\ swap_guard' = [held |-> TRUE, saved |-> swappiness]
          /\ UNCHANGED <<failed, ret, locked_memory, swappiness>>
       \/ Fail("Swappiness")
    /\ UNCHANGED <<self, locals, world, hist>>

\* Line 145.
set_swappiness ==
    /\ pc = "set_swappiness"
    /\ \/ /\ pc' = "load_public_key"
          /\ swappiness' = SUSPEND_SWAPPINESS
          /\ trace' = Append(trace, "set_swappiness")
          /\ UNCHANGED <<failed, ret, locked_memory, swap_guard>>
       \/ /\ Fail("Swappiness")
          /\ UNCHANGED trace
    /\ UNCHANGED <<self, locals, world, warnings, image, cookie_at_entry,
                   calls>>

\* Line 149.
load_public_key ==
    /\ Try("load_public_key", "install_new_metadata_key", "KeyLoad")
    /\ trace' = IF pc' = "done" THEN trace ELSE Append(trace, "load_public_key")
    /\ UNCHANGED <<self, locals, world, warnings, image, cookie_at_entry,
                   calls>>

\* Line 152: only key material of the metadata changes.
install_new_metadata_key ==
    /\ Try("install_new_metadata_key", "redirect_log_file", "KeyDerive")
    /\ UNCHANGED <<self, locals, world, hist>>

\* Line 156.
redirect_log_file ==
    /\ pc = "redirect_log_file"
    /\ pc' = "sync"
    /\ log_sink' = "File"
    /\ trace' = Append(trace, "log_file")
    /\ UNCHANGED <<failed, ret, guards, self, locals, frozen, cookie, files, env, snap,
                   kernel, warnings, image, cookie_at_entry, calls>>

\* Lines 157-161.
sync ==
    /\ pc = "sync"
    /\ pc' = "prealloc_mem"
    /\ trace' = Append(trace, "sync")
    /\ UNCHANGED <<failed, ret, guards, self, locals, world, warnings, image,
                   cookie_at_entry, calls>>

\* Line 163.
prealloc_mem ==
    /\ Try("prealloc_mem", "SnapshotDevice_new", "PreallocMem")
    /\ UNCHANGED <<self, locals, world, hist>>

\* ------------------------------------- suspend_system / snapshot_and_save
\* Return r from suspend_system or snapshot_and_save to line 165.  When
\* snapshot_and_save returns, its frozen_userspace ticket goes out of scope,
\* which thaws userspace.  tr is the trace up to the return.
InnerReturn(r, tr) ==
    /\ pc' = "redirect_log_syslog"
    /\ result' = r
    /\ failed' = IF r = "Ok" THEN failed ELSE r
    /\ frozen' = FrozenUserspaceTicket_drop(frozen)
    /\ trace' = IF frozen THEN Append(tr, "thaw") ELSE tr

\* Line 188.
SnapshotDevice_new ==
    /\ pc = "SnapshotDevice_new"
    /\ \/ /\ pc' = "freeze_userspace"
          /\ UNCHANGED <<failed, result, frozen, trace>>
       \/ InnerReturn("SnapshotDeviceOpen", trace)
    /\ UNCHANGED <<ret, guards, self, opt_arg, is_lvm, files_exist, should_zero,
                   fs_stats, prealloc, zeroed, log_file_logging, log_sink, cookie,
                   files, env, snap, kernel, warnings, image,
                   cookie_at_entry, calls>>

\* Mutant of freeze_userspace: the ticket is not bound to a name and is
\* dropped at once.
freeze_userspace_ticket_dropped ==
    /\ pc = "freeze_userspace"
    /\ \/ /\ pc' = "path_to_stateful_block"
          /\ frozen' = FALSE
          /\ trace' = trace \o <<"freeze", "thaw">>
          /\ UNCHANGED <<failed, result>>
       \/ InnerReturn("Freeze", trace)
    /\ UNCHANGED <<ret, guards, self, opt_arg, is_lvm, files_exist, should_zero,
                   fs_stats, prealloc, zeroed, log_file_logging, log_sink, cookie,
                   files, env, snap, kernel, warnings, image,
                   cookie_at_entry, calls>>

\* Lines 189-190: FREEZE_USERSPACE.
freeze_userspace ==
    /\ pc = "freeze_userspace"
    /\ \/ /\ pc' = "path_to_stateful_block"
          /\ frozen' = TRUE
          /\ trace' = Append(trace, "freeze")
          /\ UNCHANGED <<failed, result>>
       \/ InnerReturn("Freeze", trace)
    /\ UNCHANGED <<ret, guards, self, opt_arg, is_lvm, files_exist, should_zero,
                   fs_stats, prealloc, zeroed, log_file_logging, log_sink, cookie,
                   files, env, snap, kernel, warnings, image,
                   cookie_at_entry, calls>>

\* Line 204.
path_to_stateful_block ==
    /\ pc = "path_to_stateful_block"
    /\ \/ /\ pc' = "atomic_snapshot"
          /\ UNCHANGED <<failed, result, frozen, trace>>
       \/ InnerReturn("StatefulBlock", trace)
    /\ UNCHANGED <<ret, guards, self, opt_arg, is_lvm, files_exist, should_zero,
                   fs_stats, prealloc, zeroed, log_file_logging, log_sink, cookie,
                   files, env, snap, kernel, warnings, image,
                   cookie_at_entry, calls>>

\* Mutant of atomic_snapshot: on failure the ticket is leaked, not dropped.
atomic_snapshot_leak_ticket ==
    /\ pc = "atomic_snapshot"
    /\ \/ /\ pc' = "get_image_size"
          /\ snap' = [taken |-> TRUE, metadata |-> metadata, log_sink |-> log_sink,
                      metrics_flushed |-> metrics_flushed]
          /\ trace' = Append(trace, "snapshot")
          /\ UNCHANGED <<failed, result>>
       \/ /\ pc' = "redirect_log_syslog"
          /\ result' = "Snapshot"
          /\ failed' = "Snapshot"
          /\ trace' = Append(trace, "snapshot_failed")
          /\ UNCHANGED snap
    /\ UNCHANGED <<ret, guards, self, opt_arg, is_lvm, files_exist, should_zero,
                   fs_stats, prealloc, zeroed, log_file_logging, frozen, log_sink,
                   cookie, files, env, kernel, warnings, image,
                   cookie_at_entry, calls>>

\* Line 210, in the kernel that takes the snapshot: ATOMIC_SNAPSHOT fails, or
\* returns true with the process memory captured in the image.
atomic_snapshot ==
    /\ pc = "atomic_snapshot"
    /\ \/ /\ pc' = "get_image_size"
          /\ snap' = [taken |-> TRUE, metadata |-> metadata, log_sink |-> log_sink,
                      metrics_flushed |-> metrics_flushed]
          /\ trace' = Append(trace, "snapshot")
          /\ UNCHANGED <<failed, result, frozen>>
       \/ /\ InnerReturn("Snapshot", Append(trace, "snapshot_failed"))
          /\ UNCHANGED snap
    /\ UNCHANGED <<ret, guards, self, opt_arg, is_lvm, files_exist, should_zero,
                   fs_stats, prealloc, zeroed, log_file_logging, log_sink, cookie,
                   files, env, kernel, warnings, image, cookie_at_entry,
                   calls>>

\* Line 259 (write_image).
get_image_size ==
    /\ pc = "get_image_size"
    /\ \/ /\ pc' = "ImageSplitter_new"
          /\ \E sz \in ImageSizes : reported_size' = sz
          /\ UNCHANGED <<failed, result, frozen, trace>>
       \/ /\ InnerReturn("ImageSize", trace)
          /\ UNCHANGED reported_size
    /\ UNCHANGED <<ret, guards, self, opt_arg, is_lvm, files_exist, should_zero,
                   fs_stats, prealloc, zeroed, log_file_logging, log_sink, cookie,
                   files, env, snap, kernel, warnings, splitter_meta_size,
                   meta_size, movers, cookie_at_entry, calls>>

\* Lines 261-268 (write_image): a new splitter has parsed no header yet.
ImageSplitter_new ==
    /\ pc = "ImageSplitter_new"
    /\ pc' = "move_first_page"
    /\ splitter_meta_size' = 0
    /\ meta_size' = 0
    /\ movers' = <<>>
    /\ UNCHANGED <<failed, ret, guards, self, locals, world, trace, warnings,
                   reported_size, cookie_at_entry, calls>>

\* ImageMover::new(source, dest, size, chunk, chunk): the request a mover is
\* made with; pad is whether pad_output_length() was called on it.
ImageMover_new(stage, size, source_chunk, dest_chunk, pad) ==
    [stage |-> stage, size |-> size, source_chunk |-> source_chunk,
     dest_chunk |-> dest_chunk, pad |-> pad]

\* Mutant of HeaderSize: the page already moved is not subtracted.
HeaderSize_whole(entry_meta_size, parsed_meta_size) ==
    IF entry_meta_size = 0 THEN parsed_meta_size ELSE entry_meta_size

\* Lines 296-310: the local meta_size, from splitter.meta_size on entry and
\* the value the splitter parsed when the first page went through it.
HeaderSize(entry_meta_size, parsed_meta_size) ==
    IF entry_meta_size = 0 THEN parsed_meta_size - PageSize ELSE entry_meta_size

\* The header file and the hiberfile once a mover has been started on them:
\* what they held can no longer be taken to be whole, and the new image is
\* not whole yet.
PartialImage == [state |-> "partial", gen |-> 0]

\* The header file and the hiberfile once the body mover of call number gen
\* has moved the rest of the image.
CompleteImage(gen) == [state |-> "complete", gen |-> gen]

\* move_all() failed: nothing tells how much the mover wrote before it failed.
FailedMover ==
    image_on_disk' = PartialImage

\* ImageMover::new(..)? failed: move_image returns before move_all() is
\* called, no byte went through the splitter, and the files hold what they
\* held.
ImageMover_new_Err ==
    UNCHANGED <<image_on_disk, metadata>>

\* The splitter and the movers go out of scope when write_image returns.
ImageSplitter_drop ==
    /\ splitter_meta_size' = 0
    /\ meta_size' = 0
    /\ movers' = <<>>

\* Lines 263-268 (write_image): the splitter holds &mut self.metadata for as
\* long as it lives, and it updates the authentication tag as bytes go
\* through it: a mover, finished or failed, may leave any tag behind.
ImageSplitter_write ==
    \E tag \in 0..1 : metadata' = [metadata EXCEPT !.data_tag = tag]

\* Lines 293-310 (move_image): when the header size is not known, one page is
\* moved so that the splitter can parse it.  Each stage can fail in two
\* places: in ImageMover::new(..)?, before anything is moved, and in
\* move_all().
move_first_page ==
    /\ pc = "move_first_page"
    /\ \/ /\ splitter_meta_size = 0
          /\ \/ /\ \E parsed \in ParsedMetaSizes :
                      /\ splitter_meta_size' = parsed
                      /\ meta_size' = HeaderSize(splitter_meta_size, parsed)
                /\ movers' = Append(movers,
                       ImageMover_new("first_page", PageSize, PageSize, PageSize,
                                      FALSE))
                /\ image_on_disk' = PartialImage
                /\ pc' = "move_header"
                /\ UNCHANGED <<failed, result, frozen, trace>>
                /\ ImageSplitter_write
             \/ /\ InnerReturn("Io", trace)
                /\ FailedMover
                /\ ImageSplitter_drop
                /\ ImageSplitter_write
             \/ /\ InnerReturn("Io", trace)
                /\ ImageMover_new_Err
                /\ ImageSplitter_drop
       \/ /\ splitter_meta_size # 0
          /\ UNCHANGED <<image_on_disk, metadata>>
          /\ meta_size' = HeaderSize(splitter_meta_size, splitter_meta_size)
          /\ pc' = "move_header"
          /\ UNCHANGED <<failed, result, frozen, trace, splitter_meta_size, movers>>
    /\ UNCHANGED <<ret, guards, options, metrics_file, metrics_flushed, opt_arg,
                   is_lvm, files_exist, should_zero, fs_stats, prealloc, zeroed, log_file_logging, log_sink, cookie,
                   files, lvm, update_engine, swappiness_at_entry, meta_on_disk,
                   snap, kernel, warnings, reported_size, cookie_at_entry,
                   calls>>

\* Lines 312-325 (move_image): the assertion on splitter.meta_size, then the
\* header mover.  A failed assertion panics: the stack unwinds, which
\* releases every guard, and the process is gone.
move_header ==
    /\ pc = "move_header"
    /\ \/ /\ splitter_meta_size # 0
          /\ \/ /\ pc' = "move_body"
                /\ movers' = Append(movers,
                       ImageMover_new("header", meta_size, PageSize,
                                      PageSize * BUFFER_PAGES, FALSE))
                /\ image_on_disk' = PartialImage
                /\ UNCHANGED <<failed, result, frozen, trace, splitter_meta_size,
                               meta_size>>
                /\ ImageSplitter_write
             \/ /\ InnerReturn("Io", trace)
                /\ FailedMover
                /\ ImageSplitter_drop
                /\ ImageSplitter_write
             \/ /\ InnerReturn("Io", trace)
                /\ ImageMover_new_Err
                /\ ImageSplitter_drop
          /\ UNCHANGED guards
       \/ /\ splitter_meta_size = 0
          /\ pc' = "panicked"
          /\ frozen' = FrozenUserspaceTicket_drop(frozen)
          /\ trace' = Append(trace, "thaw")
          /\ locked_memory' = FALSE
          /\ swappiness' = Swappiness_drop(swap_guard, swappiness)
          /\ swap_guard' = NoGuard
          /\ ImageSplitter_drop
          /\ UNCHANGED <<failed, result, image_on_disk, metadata>>
    /\ UNCHANGED <<ret, options, metrics_file, metrics_flushed, opt_arg,
                   is_lvm, files_exist, should_zero, fs_stats, prealloc, zeroed, log_file_logging, log_sink, cookie,
                   files, lvm, update_engine, swappiness_at_entry, meta_on_disk,
                   snap, kernel, warnings, reported_size, cookie_at_entry,
                   calls>>

\* Lines 327-337 (move_image): the body mover, with its output length padded;
\* the splitter leaves the authentication tag in the metadata, whether
\* the mover gets through or not.
move_body ==
    /\ pc = "move_body"
    /\ \/ /\ pc' = "write_image_done"
          /\ movers' = Append(movers,
                 ImageMover_new("body", reported_size - splitter_meta_size,
                                PageSize, PageSize * BUFFER_PAGES, TRUE))
          /\ trace' = Append(trace, "image_write")
          /\ image_on_disk' = CompleteImage(attempts)
          /\ UNCHANGED <<failed, result, frozen, splitter_meta_size, meta_size>>
          /\ ImageSplitter_write
       \/ /\ InnerReturn("Io", trace)
          /\ FailedMover
          /\ ImageSplitter_drop
          /\ ImageSplitter_write
       \/ /\ InnerReturn("Io", trace)
          /\ ImageMover_new_Err
          /\ ImageSplitter_drop
    /\ UNCHANGED <<ret, guards, options, metrics_file, metrics_flushed, opt_arg,
                   is_lvm, files_exist, should_zero, fs_stats, prealloc, zeroed,
                   log_file_logging, log_sink, cookie, files, lvm, update_engine,
                   swappiness_at_entry, meta_on_disk, snap, kernel, warnings,
                   reported_size, cookie_at_entry, calls>>

\* Lines 263-269 (write_image) and 288-338 (move_image): the image is streamed
\* through the splitter in stages: first page, header, body.
move_image ==
    \/ move_first_page
    \/ move_header
    \/ move_body

\* Mutant of write_image_done: metadata.image_size is not updated.
write_image_done_no_size ==
    /\ pc = "write_image_done"
    /\ metrics_flushed' = FALSE
    /\ \/ /\ metadata.data_tag # 0
          /\ pc' = "meta_file_rewind"
          /\ metadata' = [metadata EXCEPT !.valid = TRUE]
          /\ UNCHANGED <<guards, frozen, trace>>
       \/ /\ metadata.data_tag = 0
          /\ pc' = "panicked"
          /\ frozen' = FrozenUserspaceTicket_drop(frozen)
          /\ trace' = Append(trace, "thaw")
          /\ locked_memory' = FALSE
          /\ swappiness' = Swappiness_drop(swap_guard, swappiness)
          /\ swap_guard' = NoGuard
          /\ UNCHANGED metadata
    /\ ImageSplitter_drop
    /\ UNCHANGED <<failed, ret, options, metrics_file, locals, log_sink, cookie, files, env,
                   snap, kernel, warnings, reported_size, cookie_at_entry, calls>>

\* Lines 270-279 (write_image): the I/O sample, the assertion on the tag, then
\* image_size and VALID; the splitter and the movers go out of scope.  A failed
\* assertion panics: the stack unwinds, which releases every guard, and the
\* process is gone.
write_image_done ==
    /\ pc = "write_image_done"
    /\ metrics_flushed' = FALSE
    /\ \/ /\ metadata.data_tag # 0
          /\ pc' = "meta_file_rewind"
          /\ metadata' = [metadata EXCEPT !.image_size = reported_size,
                                          !.valid = TRUE]
          /\ UNCHANGED <<guards, frozen, trace>>
       \/ /\ metadata.data_tag = 0
          /\ pc' = "panicked"
          /\ frozen' = FrozenUserspaceTicket_drop(frozen)
          /\ trace' = Append(trace, "thaw")
          /\ locked_memory' = FALSE
          /\ swappiness' = Swappiness_drop(swap_guard, swappiness)
          /\ swap_guard' = NoGuard
          /\ UNCHANGED metadata
    /\ ImageSplitter_drop
    /\ UNCHANGED <<failed, ret, options, metrics_file, locals, log_sink, cookie, files, env,
                   snap, kernel, warnings, reported_size, cookie_at_entry, calls>>

\* Line 214.
meta_file_rewind ==
    /\ pc = "meta_file_rewind"
    /\ \/ /\ pc' = "write_to_disk"
          /\ UNCHANGED <<failed, result, frozen, trace>>
       \/ InnerReturn("Io", trace)
    /\ UNCHANGED <<ret, guards, self, opt_arg, is_lvm, files_exist, should_zero,
                   fs_stats, prealloc, zeroed, log_file_logging, log_sink, cookie,
                   files, env, snap, kernel, warnings, image,
                   cookie_at_entry, calls>>

\* Mutant of write_to_disk: the metadata is not written before the cookie.
write_to_disk_skipped ==
    /\ pc = "write_to_disk"
    /\ pc' = "set_cookie_ResumeReady"
    /\ UNCHANGED <<failed, ret, guards, self, locals, world, hist>>

\* Lines 215-216: the metadata as write_image left it goes to the metadata
\* file; after a failed write what the file holds cannot be taken to be whole.
write_to_disk ==
    /\ pc = "write_to_disk"
    /\ \/ /\ pc' = "set_cookie_ResumeReady"
          /\ trace' = Append(trace, "metadata_write")
          /\ meta_on_disk' = [state |-> "written", valid |-> metadata.valid,
                              gen |-> attempts]
          /\ UNCHANGED <<failed, result, frozen>>
       \/ /\ InnerReturn("Io", trace)
          /\ meta_on_disk' = TornMeta
    /\ UNCHANGED <<ret, guards, self, opt_arg, is_lvm, files_exist, should_zero,
                   fs_stats, prealloc, zeroed, log_file_logging, log_sink, cookie,
                   files, lvm, update_engine, swappiness_at_entry,
                   image_on_disk, snap, kernel, warnings, image,
                   cookie_at_entry, calls>>

\* Lines 218-224: a failed write leaves the cookie as it was.
set_cookie_ResumeReady ==
    /\ pc = "set_cookie_ResumeReady"
    /\ \/ /\ pc' = "metrics_flush"
          /\ cookie' = "ResumeReady"
          /\ trace' = Append(trace, "cookie_ResumeReady")
          /\ UNCHANGED <<failed, result, frozen>>
       \/ /\ InnerReturn("CookieSet", trace)
          /\ UNCHANGED cookie
    /\ UNCHANGED <<ret, guards, self, opt_arg, is_lvm, files_exist, should_zero,
                   fs_stats, prealloc, zeroed, log_file_logging, log_sink, files,
                   env, snap, kernel, warnings, image, cookie_at_entry,
                   calls>>

\* Mutant of metrics_flush: a failed flush is returned with `?`.
metrics_flush_fatal ==
    /\ pc = "metrics_flush"
    /\ \/ /\ pc' = "redirect_log_memory"
          /\ trace' = Append(trace, "metrics_flush")
          /\ metrics_flushed' = TRUE
          /\ UNCHANGED <<failed, result, frozen>>
       \/ /\ InnerReturn("MetricsFlush", Append(trace, "metrics_flush"))
          /\ UNCHANGED metrics_flushed
    /\ UNCHANGED <<ret, guards, options, metadata, metrics_file, opt_arg, is_lvm,
                   files_exist, should_zero, fs_stats, prealloc, zeroed,
                   log_file_logging, log_sink, cookie, files, env, snap, kernel,
                   warnings, image, cookie_at_entry, calls>>

\* Lines 228-230: a failed flush is only a warning.
metrics_flush ==
    /\ pc = "metrics_flush"
    /\ pc' = "redirect_log_memory"
    /\ trace' = Append(trace, "metrics_flush")
    /\ \/ /\ metrics_flushed' = TRUE
          /\ UNCHANGED warnings
       \/ /\ warnings' = warnings \cup {"Failed to flush suspend metrics"}
          /\ UNCHANGED metrics_flushed
    /\ UNCHANGED <<failed, ret, guards, options, metadata, metrics_file, locals, world,
                   image, cookie_at_entry, calls>>

\* Mutant of redirect_log_memory: the sink is not switched before power-off.
redirect_log_memory_omitted ==
    /\ pc = "redirect_log_memory"
    /\ pc' = IF options THEN "clear_cookie" ELSE "power_off"
    /\ trace' = Append(trace, "log_memory")
    /\ UNCHANGED <<failed, ret, guards, self, locals, world, warnings, image,
                   cookie_at_entry, calls>>

\* Mutant of redirect_log_memory: dry_run is ignored.
redirect_log_memory_ignore_dry_run ==
    /\ pc = "redirect_log_memory"
    /\ pc' = "power_off"
    /\ log_sink' = "BufferInMemory"
    /\ trace' = Append(trace, "log_memory")
    /\ UNCHANGED <<failed, ret, guards, self, locals, frozen, cookie, files, env, snap,
                   kernel, warnings, image, cookie_at_entry, calls>>

\* Lines 231-233: logs go to memory; then power off unless dry_run.
redirect_log_memory ==
    /\ pc = "redirect_log_memory"
    /\ pc' = IF options THEN "clear_cookie" ELSE "power_off"
    /\ log_sink' = "BufferInMemory"
    /\ trace' = Append(trace, "log_memory")
    /\ UNCHANGED <<failed, ret, guards, self, locals, frozen, cookie, files, env, snap,
                   kernel, warnings, image, cookie_at_entry, calls>>

\* Lines 234 and 365-377: reboot(RB_POWER_OFF).  Either the machine goes down,
\* or the syscall returns and power_off() yields a Shutdown error, which `?`
\* returns from snapshot_and_save.
power_off ==
    /\ pc = "power_off"
    /\ \/ /\ pc' = "powered_off"
          /\ trace' = Append(trace, "power_off")
          /\ UNCHANGED <<failed, result, frozen>>
       \/ InnerReturn("Shutdown", Append(trace, "power_off"))
    /\ UNCHANGED <<ret, guards, self, opt_arg, is_lvm, files_exist, should_zero,
                   fs_stats, prealloc, zeroed, log_file_logging, log_sink, cookie,
                   files, env, snap, kernel, warnings, image,
                   cookie_at_entry, calls>>

\* Line 210, in the restored kernel: the next boot loads the image and
\* ATOMIC_SNAPSHOT returns false.  Process memory is what the snapshot
\* captured; the disk is what the suspend path left.
resume ==
    /\ pc = "powered_off"
    /\ snap.taken
    /\ pc' = "reset_log"
    /\ kernel' = "restored"
    /\ metadata' = snap.metadata
    /\ log_sink' = snap.log_sink
    /\ metrics_flushed' = snap.metrics_flushed
    /\ trace' = Append(trace, "resume")
    /\ UNCHANGED <<failed, ret, guards, options, metrics_file, locals, frozen, cookie, files,
                   env, snap, warnings, image, cookie_at_entry, calls>>

\* Lines 241-243.
reset_log ==
    /\ pc = "reset_log"
    /\ pc' = "clear_cookie"
    /\ log_sink' = "BufferInMemory"
    /\ UNCHANGED <<failed, ret, guards, self, locals, frozen, cookie, files, env, snap,
                   kernel, hist>>

\* Mutant of clear_cookie: a failed clear is only warned about.
clear_cookie_soft ==
    /\ pc = "clear_cookie"
    /\ \/ /\ cookie' = "NoResume"
          /\ InnerReturn("Ok", Append(trace, "cookie_NoResume"))
          /\ UNCHANGED warnings
       \/ /\ InnerReturn("Ok", Append(trace, "cookie_clear_failed"))
          /\ warnings' = warnings \cup {"Failed to clear hibernate cookie"}
          /\ UNCHANGED cookie
    /\ UNCHANGED <<ret, guards, self, opt_arg, is_lvm, files_exist, should_zero,
                   fs_stats, prealloc, zeroed, log_file_logging, log_sink, files,
                   env, snap, kernel, image, cookie_at_entry, calls>>

\* Lines 247-250: the value of this call is the value of snapshot_and_save.
clear_cookie ==
    /\ pc = "clear_cookie"
    /\ \/ /\ cookie' = "NoResume"
          /\ InnerReturn("Ok", Append(trace, "cookie_NoResume"))
       \/ /\ InnerReturn("CookieClear", Append(trace, "cookie_clear_failed"))
          /\ UNCHANGED cookie
    /\ UNCHANGED <<ret, guards, self, opt_arg, is_lvm, files_exist, should_zero,
                   fs_stats, prealloc, zeroed, log_file_logging, log_sink, files,
                   env, snap, kernel, warnings, image, cookie_at_entry,
                   calls>>

\* ------------------------------------------------ hibernate(), after 165
\* Line 167.
redirect_log_syslog ==
    /\ pc = "redirect_log_syslog"
    /\ pc' = "replay_logs"
    /\ log_sink' = "Syslog"
    /\ UNCHANGED <<failed, ret, guards, self, locals, frozen, cookie, files, env, snap,
                   kernel, hist>>

\* Lines 169-174: replay_logs and read_and_send_metrics.
replay_logs ==
    /\ pc = "replay_logs"
    /\ pc' = "delete_data_if_disk_full"
    /\ UNCHANGED <<failed, ret, guards, self, locals, world, hist>>

\* Lines 342-343: free_percent < threshold, for the product f_bfree * 100 as
\* the build computed it (five limbs) and a non-zero f_blocks:
\* product / f_blocks < threshold exactly when product < threshold * f_blocks.
FreePercentBelow(product, f_blocks, threshold) ==
    LessLimbs(product, MulLimbs(f_blocks, threshold))

\* Lines 343-348: the decision is logged; no file is touched.
LogDecision(product) ==
    /\ pc' = "return_result"
    /\ trace' = Append(trace,
           IF FreePercentBelow(product, fs_stats.f_blocks,
                               LOW_DISK_FREE_THRESHOLD_PERCENT)
           THEN "freeing_hiberdata" ELSE "not_freeing")
    /\ files' = files
    /\ UNCHANGED guards

\* A panic in hibernate() itself: the stack unwinds, which drops the memory
\* lock and the Swappiness guard, and the process is gone.
Panic ==
    /\ pc' = "panicked"
    /\ locked_memory' = FALSE
    /\ swappiness' = Swappiness_drop(swap_guard, swappiness)
    /\ swap_guard' = NoGuard
    /\ UNCHANGED <<trace, files>>

\* Lines 175 and 341-349.  f_bfree * 100 / f_blocks is u64 arithmetic: a
\* product that does not fit panics in a build with overflow checks and wraps
\* in a build without; a zero f_blocks panics in every build.
delete_data_if_disk_full ==
    /\ pc = "delete_data_if_disk_full"
    /\ \/ /\ MulOverflows(fs_stats.f_bfree, 100)
          /\ Panic
       \/ /\ fs_stats.f_blocks = U64(0)
          /\ Panic
       \/ /\ fs_stats.f_blocks # U64(0)
          /\ LogDecision(WrappingMul(fs_stats.f_bfree, 100))
    /\ UNCHANGED <<failed, ret, self, locals, frozen, log_sink, cookie, env, snap,
                   kernel, warnings, image, cookie_at_entry, calls>>

\* Mutant of return_result: hibernate() ends with Ok(()) whatever
\* suspend_system returned.
return_result_swallowed ==
    /\ pc = "return_result"
    /\ Return("Ok")
    /\ UNCHANGED failed
    /\ UNCHANGED <<self, locals, world, hist>>

\* Line 176.
return_result ==
    /\ pc = "return_result"
    /\ Return(result)
    /\ UNCHANGED failed
    /\ UNCHANGED <<self, locals, world, hist>>

Next ==
    \/ \E dry \in BOOLEAN : Hibernate(dry)
    \/ setup_hibernate_lv
    \/ log_hibernate_attempt
    \/ create_lv_snapshot_files
    \/ is_lvm_system
    \/ preallocate_header_file
    \/ preallocate_hiberfile
    \/ preallocate_metadata_file
    \/ preallocate_resume_log
    \/ preallocate_resume_metrics
    \/ preallocate_suspend_metrics
    \/ open_metrics_file
    \/ preallocate_suspend_log
    \/ store_options
    \/ is_update_engine_idle
    \/ set_logging
    \/ get_fs_stats
    \/ lock_process_memory
    \/ Swappiness_new
    \/ set_swappiness
    \/ load_public_key
    \/ install_new_metadata_key
    \/ redirect_log_file
    \/ sync
    \/ prealloc_mem
    \/ SnapshotDevice_new
    \/ freeze_userspace
    \/ path_to_stateful_block
    \/ atomic_snapshot
    \/ get_image_size
    \/ ImageSplitter_new
    \/ move_image
    \/ write_image_done
    \/ meta_file_rewind
    \/ write_to_disk
    \/ set_cookie_ResumeReady
    \/ metrics_flush
    \/ redirect_log_memory
    \/ power_off
    \/ resume
    \/ reset_log
    \/ clear_cookie
    \/ redirect_log_syslog
    \/ replay_logs
    \/ delete_data_if_disk_full
    \/ return_result

Spec == Init /\ [][Next]_vars

\* ------------------------------------------------ move_image on its own
\* move_image as a function of its arguments: the conductor stands at line
\* 293 in a first, non-dry-run attempt on an LVM system, with an image size
\* the snapshot device reported and a splitter whose header size is any
\* value, known (non-zero) or not (zero).
MoveInit ==
    /\ pc = "move_first_page"
    /\ ret = "none"
    /\ failed = "none"
    /\ result = "none"
    /\ attempts = 1
    /\ opt_arg = FALSE
    /\ options = FALSE
    /\ metadata = NewMetadata
    /\ metrics_file = TRUE
    /\ metrics_flushed = FALSE
    /\ is_lvm = TRUE
    /\ files_exist = FALSE
    /\ should_zero = TRUE
    /\ fs_stats = [f_bfree |-> U64(MaxFree), f_blocks |-> U64(MaxBlocks)]
    /\ prealloc = AllFiles
    /\ zeroed = AllFiles
    /\ log_file_logging = FALSE
    /\ locked_memory = TRUE
    /\ swappiness_at_entry \in InitSwappiness
    /\ swap_guard = [held |-> TRUE, saved |-> swappiness_at_entry]
    /\ swappiness = SUSPEND_SWAPPINESS
    /\ frozen = TRUE
    /\ log_sink = "File"
    /\ cookie = "NoResume"
    /\ files = AllFiles
    /\ lvm = TRUE
    /\ update_engine = "idle"
    /\ snap = [taken |-> TRUE, metadata |-> NewMetadata,
               metrics_flushed |-> FALSE, log_sink |-> "File"]
    /\ kernel = "original"
    /\ trace = <<"lock_memory", "set_swappiness", "load_public_key", "log_file",
                 "sync", "freeze", "snapshot">>
    /\ warnings = {}
    /\ reported_size \in ImageSizes
    /\ splitter_meta_size \in ParsedMetaSizes
    /\ meta_size = 0
    /\ movers = <<>>
    /\ image_on_disk = NoImage
    /\ meta_on_disk = NoMetaOnDisk
    /\ cookie_at_entry = "NoResume"
    /\ files_at_entry = {}
    /\ prev = NoPrev

MoveNext ==
    \/ move_first_page
    \/ move_header
    \/ move_body

MoveSpec == MoveInit /\ [][MoveNext]_vars

\* ================================================================ claims
\* Position of the first occurrence of ev in the trace (0 when absent).
Pos(ev) == IF Has(ev) THEN CHOOSE i \in 1..Len(trace) :
                               /\ trace[i] = ev
                               /\ \A j \in 1..(i - 1) : trace[j] # ev
           ELSE 0
\* ev1 and ev2 both occur, ev1 first.
Then(ev1, ev2) == Has(ev1) /\ Has(ev2) /\ Pos(ev1) < Pos(ev2)
\* hibernate() has returned to its caller.
Returned == pc = "done"
PreallocatePcs == {"preallocate_header_file", "preallocate_hiberfile",
                   "preallocate_metadata_file", "preallocate_resume_log",
                   "preallocate_resume_metrics", "preallocate_suspend_metrics",
                   "preallocate_suspend_log"}
FlushFailed == "Failed to flush suspend metrics" \in warnings

\* C1 (as claimed): whenever hibernate() returns after the atomic snapshot
\* succeeded, with success or with an error raised after the fork other than
\* a failure of the cookie clear itself, the cookie on disk is NoResume.
C1_CookieNoResumeAtReturn ==
    (Returned /\ Has("snapshot") /\ ret # "CookieClear") => cookie = "NoResume"

\* C2: in a successful run, sync precedes FREEZE_USERSPACE, which precedes
\* ATOMIC_SNAPSHOT; the metadata write precedes the write of ResumeReady, and
\* that write precedes every power-off call (which a non-dry run makes).
C2_Ordering ==
    (Returned /\ ret = "Ok") =>
        /\ Then("sync", "freeze")
        /\ Then("freeze", "snapshot")
        /\ Then("metadata_write", "cookie_ResumeReady")
        /\ Before("cookie_ResumeReady", "power_off")
        /\ Before("freeze", "snapshot")
        /\ Before("sync", "freeze")
        /\ Before("metadata_write", "cookie_ResumeReady")
        /\ (~options => Then("cookie_ResumeReady", "power_off"))
C2_Witness ==
    /\ Returned /\ ret = "Ok" /\ ~options
    /\ Has("power_off") /\ kernel = "restored"

\* C3 (as claimed): at the moment power_off is called, the metrics sink has
\* been flushed and the log sink is BufferInMemory.
C3_FlushedAtPowerOff ==
    pc = "power_off" => (metrics_flushed /\ log_sink = "BufferInMemory")
\* C3 (amended): at the moment power_off is called, the metrics flush has been
\* invoked (it succeeded, or it failed and a warning was logged) and the log
\* sink is BufferInMemory.
C3_FlushAttemptedAtPowerOff ==
    pc = "power_off" =>
        /\ Has("metrics_flush")
        /\ metrics_flushed \/ FlushFailed
        /\ log_sink = "BufferInMemory"
C3_Witness == pc = "power_off" /\ FlushFailed /\ ~metrics_flushed

\* C4 (as claimed): whenever hibernate() returns success after the image was
\* written (dry run, or after resume), the metadata is VALID with a non-zero
\* tag and the image size the snapshot device reported.
C4_MetadataValidOnSuccess ==
    (Returned /\ ret = "Ok" /\ Has("image_write")) =>
        /\ metadata.valid
        /\ metadata.data_tag # 0
        /\ metadata.image_size = reported_size
\* C4 (amended): the same, for a success returned by the kernel that wrote the
\* image (the dry-run return); the restored kernel holds the metadata as it
\* was when the snapshot was taken.
C4_MetadataValidOnDryRunSuccess ==
    (Returned /\ ret = "Ok" /\ Has("image_write") /\ ~Has("resume")) =>
        /\ metadata.valid
        /\ metadata.data_tag # 0
        /\ metadata.image_size = reported_size
C4_Witness ==
    /\ Returned /\ ret = "Ok" /\ Has("image_write") /\ ~Has("resume")
    /\ metadata.image_size = MaxImagePages * PageSize

\* C5: while the update engine reports a state other than idle, no step after
\* the gate has run (no memory lock, swappiness change, key load, log
\* redirect, sync, freeze, snapshot, cookie write), and when hibernate()
\* has returned from the gate its value is UpdateEngineBusy with all seven
\* preallocated files in place.
C5_UpdateEngineBusy ==
    /\ update_engine = "updating" =>
          /\ trace = <<>>
          /\ ~frozen /\ ~locked_memory /\ ~swap_guard.held
          /\ swappiness = swappiness_at_entry
          /\ cookie = cookie_at_entry
          /\ log_file_logging
    /\ (update_engine = "updating" /\ Returned /\ prealloc = AllFiles) =>
          /\ ret = "UpdateEngineBusy"
          /\ AllFiles \subseteq files
C5_Witness ==
    /\ Returned /\ ret = "UpdateEngineBusy" /\ ~opt_arg
    /\ prealloc = AllFiles /\ AllFiles \subseteq files

\* C6: when ATOMIC_SNAPSHOT fails after a successful freeze, hibernate()
\* returns the Snapshot error with userspace thawed, no cookie write in the
\* attempt (the cookie is what it was at entry, so NoResume stays NoResume)
\* and vm.swappiness back at the value it had at entry.
C6_SnapshotFails ==
    (Returned /\ Has("snapshot_failed")) =>
        /\ ret = "Snapshot"
        /\ Then("freeze", "snapshot_failed")
        /\ Then("snapshot_failed", "thaw")
        /\ ~frozen
        /\ ~Has("cookie_ResumeReady") /\ ~Has("cookie_NoResume")
        /\ cookie = cookie_at_entry
        /\ Then("set_swappiness", "freeze")
        /\ swappiness = swappiness_at_entry
C6_Witness ==
    /\ Returned /\ Has("snapshot_failed") /\ ret = "Snapshot"
    /\ cookie_at_entry = "NoResume" /\ cookie = "NoResume"
    /\ swappiness = 60

\* C7: a dry run that starts with the cookie at NoResume and returns success
\* went through image write, metadata write, cookie set, metrics flush and
\* log redirect in that order, never called power_off, wrote the cookie
\* exactly twice (ResumeReady, then NoResume), and leaves
\* metadata.image_size at the reported image size.
C7_DryRun ==
    (Returned /\ options /\ ret = "Ok" /\ cookie_at_entry = "NoResume") =>
        /\ Then("image_write", "metadata_write")
        /\ Then("metadata_write", "cookie_ResumeReady")
        /\ Then("cookie_ResumeReady", "metrics_flush")
        /\ Then("metrics_flush", "log_memory")
        /\ Then("log_memory", "cookie_NoResume")
        /\ ~Has("power_off") /\ ~Has("resume")
        /\ Count("cookie_ResumeReady") = 1 /\ Count("cookie_NoResume") = 1
        /\ cookie = "NoResume"
        /\ metadata.image_size = reported_size
C7_Witness ==
    /\ Returned /\ options /\ ret = "Ok" /\ cookie_at_entry = "NoResume"
    /\ warnings = {} /\ reported_size = MaxImagePages * PageSize

\* C8 (as claimed): once the disk-pressure check has run, if the free
\* percentage was below 10 the hiber and metadata files are gone and the log
\* and metrics files remain; otherwise all files remain.
C8_LowDiskUnlinks ==
    (Returned /\ (Has("freeing_hiberdata") \/ Has("not_freeing"))) =>
        IF Has("freeing_hiberdata")
        THEN files \cap DataFiles = {} /\ LogAndMetricsFiles \subseteq files
        ELSE AllFiles \subseteq files

\* The value hibernate() returns once the flush step has been reached, as a
\* function of the outcomes of the later steps only.
RetAfterFlush ==
    IF options \/ Has("resume")
    THEN (IF Has("cookie_NoResume") THEN "Ok" ELSE "CookieClear")
    ELSE "Shutdown"
\* C9: whatever the outcome of the metrics flush, the conductor goes on to
\* redirect the logs to memory and (unless dry_run) to call power_off, and
\* the value hibernate() returns is decided by the later steps alone; a
\* failed flush leaves only a warning.
C9_FlushFailureIsSoft ==
    /\ (pc \in {"power_off", "clear_cookie"} /\ ~Has("resume")) =>
          Then("metrics_flush", "log_memory") /\ log_sink = "BufferInMemory"
    /\ (Returned /\ Has("metrics_flush")) =>
          /\ Then("metrics_flush", "log_memory")
          /\ ~options => Then("log_memory", "power_off")
          /\ ret = RetAfterFlush
    /\ (Has("metrics_flush") /\ ~metrics_flushed /\ ~Has("resume")) => FlushFailed
C9_Witness ==
    /\ Returned /\ FlushFailed /\ ~options /\ Has("power_off") /\ ret = "Ok"

\* C10: whenever userspace is frozen, all seven backing files have been
\* preallocated and exist, process memory is locked, and the conductor is
\* not at a preallocation step.
C10_FrozenAfterPrealloc ==
    frozen =>
        /\ prealloc = AllFiles
        /\ AllFiles \subseteq files
        /\ locked_memory
        /\ Has("lock_memory")
        /\ pc \notin PreallocatePcs
C10_Witness == frozen /\ pc = "move_body" /\ prealloc = AllFiles /\ locked_memory


\* C11: a failed cookie clear on the resume side is a soft warning and does
\* not make hibernate() return an error.
C11_CookieClearFailureIsSoft ==
    (Returned /\ Has("cookie_clear_failed")) => ret = "Ok"

\* C11, as the code has it: a failed cookie clear is the value of
\* snapshot_and_save, so hibernate() returns that error, after userspace is
\* thawed and logging is back on syslog, with the cookie left as it was.
C11_CookieClearFailureIsReturned ==
    (Returned /\ Has("cookie_clear_failed"))
        => /\ ret = "CookieClear"
           /\ "Failed to clear hibernate cookie" \notin warnings
           /\ ~Has("cookie_NoResume")
           /\ Then("cookie_clear_failed", "thaw")
           /\ log_sink = "Syslog"
           /\ (Has("resume") => cookie = "ResumeReady")

C11_Witness ==
    Returned /\ Has("resume") /\ Has("cookie_clear_failed") /\ cookie = "ResumeReady"

\* C12: whenever delete_data_if_disk_full runs, the cookie on disk is
\* NoResume; here even for the attempts in which no cookie clear failed and
\* which found the cookie at NoResume.
C12_CleanupAfterCookieClear ==
    (/\ pc = "delete_data_if_disk_full"
     /\ ~Has("cookie_clear_failed")
     /\ cookie_at_entry = "NoResume")
        => cookie = "NoResume"

\* C13: when hibernate() has returned, whatever the outcome, the memory lock
\* is dropped, vm.swappiness is what it was at entry, and userspace is thawed.
C13_GuardsReleasedAtReturn ==
    Returned => /\ ~locked_memory
                /\ ~swap_guard.held
                /\ swappiness = swappiness_at_entry
                /\ ~frozen
                /\ (Has("freeze") => Then("freeze", "thaw"))

C13_Witness ==
    /\ Returned
    /\ ret = "Io"
    /\ Has("set_swappiness")
    /\ Has("freeze")
    /\ swappiness_at_entry # SUSPEND_SWAPPINESS
    /\ swappiness = swappiness_at_entry

\* C14: a failed fatal step is what hibernate() returns, never Ok; and when
\* the power-off call returned, hibernate() returns Shutdown.
C14_FatalErrorsPropagate ==
    Returned => /\ (failed # "none" => (ret = failed /\ ret # "Ok"))
                /\ (result # "none" => ret = result)
                /\ ((Has("power_off") /\ ~Has("resume")) => ret = "Shutdown")

C14_Witness ==
    Returned /\ Has("power_off") /\ ~Has("resume") /\ ret = "Shutdown"

\* The phases of an attempt: its events without the verdict of the disk check.
Phases(tr) ==
    SelectSeq(tr, LAMBDA ev : ev \notin {"freeing_hiberdata", "not_freeing"})

\* C15: a call made after a call that returned Ok, with the same options and
\* with no step failing, goes through the phases the first call went through
\* and returns Ok; the files are found, nothing is zeroed and no file is added.
C15_SecondCallIdempotent ==
    (Returned /\ prev.ok /\ failed = "none" /\ opt_arg = prev.dry_run)
        => /\ ret = "Ok"
           /\ Phases(trace) = Phases(prev.trace)
           /\ files_exist
           /\ ~should_zero
           /\ zeroed = {}
           /\ prealloc = AllFiles
           /\ files = files_at_entry

C15_Witness ==
    /\ Returned
    /\ prev.ok
    /\ ~prev.dry_run
    /\ ~opt_arg
    /\ failed = "none"
    /\ lvm
    /\ Has("resume")

\* Where the conductor stands between a successful freeze and the power-off
\* call, on the suspend side of the fork.
SuspendSidePcs ==
    {"path_to_stateful_block", "atomic_snapshot", "get_image_size",
     "ImageSplitter_new", "move_first_page", "move_header", "move_body",
     "write_image_done", "meta_file_rewind", "write_to_disk",
     "set_cookie_ResumeReady", "metrics_flush", "redirect_log_memory",
     "power_off"}

\* Where it stands between the power-off call and the return of
\* snapshot_and_save.
ResumeSidePcs == {"powered_off", "reset_log", "clear_cookie"}

\* C16: from a successful freeze to the power-off call, or to the return of
\* snapshot_and_save, the ticket is held and userspace has not been thawed.
C16_TicketHeldAcrossFork ==
    /\ pc \in SuspendSidePcs => (frozen /\ Has("freeze") /\ ~Has("thaw"))
    /\ pc \in ResumeSidePcs => (frozen /\ ~Has("thaw"))

C16_Witness ==
    pc = "power_off" /\ frozen /\ cookie = "ResumeReady" /\ Has("metrics_flush")

\* The byte counts a sequence of movers was asked for, added up.
RECURSIVE SumSizes(_)
SumSizes(ms) == IF ms = <<>> THEN 0 ELSE Head(ms).size + SumSizes(Tail(ms))

\* The stages of a sequence of movers, in order.
Stages(ms) == [i \in 1..Len(ms) |-> ms[i].stage]

\* C17: move_image moves one page first exactly when splitter.meta_size is 0
\* on entry and then asks the header mover for meta_size - page_size bytes,
\* otherwise it asks the header mover for meta_size bytes; the body mover is
\* asked for image_size - meta_size bytes, padded; header and body movers
\* write in chunks of page_size * BUFFER_PAGES; the requests add up to
\* image_size and come in the order first page, header, body.
C17_MoveImageStaging ==
    [][/\ (pc = "move_first_page" /\ pc' = "move_header")
            => IF splitter_meta_size = 0
               THEN /\ movers' = <<ImageMover_new("first_page", PageSize,
                                                  PageSize, PageSize, FALSE)>>
                    /\ meta_size' = splitter_meta_size' - PageSize
               ELSE /\ movers' = <<>>
                    /\ splitter_meta_size' = splitter_meta_size
                    /\ meta_size' = splitter_meta_size
       /\ (pc = "move_header" /\ pc' = "move_body")
            => movers' = Append(movers,
                   ImageMover_new("header", meta_size, PageSize,
                                  PageSize * BUFFER_PAGES, FALSE))
       /\ (pc = "move_body" /\ pc' = "write_image_done")
            => /\ movers' = Append(movers,
                      ImageMover_new("body", reported_size - splitter_meta_size,
                                     PageSize, PageSize * BUFFER_PAGES, TRUE))
               /\ SumSizes(movers') = reported_size
               /\ Stages(movers') \in {<<"first_page", "header", "body">>,
                                       <<"header", "body">>}
      ]_vars

C17_Witness ==
    /\ pc = "write_image_done"
    /\ Stages(movers) = <<"header", "body">>
    /\ movers[1].size = PageSize + 1
    /\ movers[2].size = reported_size - (PageSize + 1)
    /\ movers[2].pad

\* C18: on an LVM system every file an attempt creates is zero-filled.
C18_NewFilesZeroedOnLvm ==
    \A f \in prealloc : (is_lvm /\ f \notin files_at_entry) => f \in zeroed

\* C19: VALID is set only with a non-zero tag and a positive image size, in
\* every state, over any sequence of calls; here for the states in which
\* hibernate() has returned, where no assertion of write_image is pending.
C19_ValidImpliesTagAndSizeAtReturn ==
    (Returned /\ metadata.valid)
        => (metadata.data_tag # 0 /\ metadata.image_size > 0)

\* C20: when hibernate() returns after it has redirected logging to the
\* suspend log file, the log sink is Syslog again.
C20_SyslogAtReturn ==
    (Returned /\ Has("log_file")) => log_sink = "Syslog"

\* C22: whatever image size the device reports and whatever header size the
\* splitter parses, the header stage and the body stage are asked for a
\* non-negative number of bytes, and splitter.meta_size is non-zero when the
\* assertion after the first-page transfer is evaluated.
C22_NonNegativeRequests ==
    /\ pc = "move_header" => (splitter_meta_size # 0 /\ meta_size >= 0)
    /\ pc = "move_body" => reported_size - splitter_meta_size >= 0
    /\ \A i \in 1..Len(movers) : movers[i].size >= 0

\* C21: over any sequence of calls, whenever the cookie on disk is
\* ResumeReady, the header file and the hiberfile hold a whole image and the
\* metadata file holds metadata with VALID set, written for that image; so no
\* call starts to overwrite either of them under a ResumeReady cookie.
C21_ResumeReadyImpliesImage ==
    cookie = "ResumeReady"
        => /\ image_on_disk.state = "complete"
           /\ meta_on_disk.state = "written"
           /\ meta_on_disk.valid
           /\ meta_on_disk.gen = image_on_disk.gen
====
